---- MODULE Spec2Model ----
(***************************************************************************)
(* The InteractiveGrid component (src/src/components/InteractiveGrid.tsx) *)
(* as a state machine: the grid builder, the per-frame simulation step,   *)
(* the connection-line pass of the renderer, the pointer and resize        *)
(* handlers and the mount / unmount lifecycle.                             *)
(*                                                                         *)
(* Numbers.  The component computes in IEEE doubles; the model computes in *)
(* fixed point with Scale units per pixel, per lightness point and per     *)
(* simulation-time unit of noiseOffset.  Every product of the code is the  *)
(* same product here, followed by one rounding to the grid (Round, to      *)
(* nearest, as the hardware rounds).  Angles are in milliradians and       *)
(* Math.sin is Bhaskara's rational approximation (error below 0.002).      *)
(* Math.random is a linear congruential generator whose seed is chosen     *)
(* nondeterministically at every build.                                    *)
(***************************************************************************)
EXTENDS Integers, Sequences, FiniteSets, TLC

VARIABLES
    phase,        \* "created" (refs initialised), "mounted", "unmounted"
    viewport,     \* <<window.innerWidth, window.innerHeight>> read by the last resize()
    cells,        \* cellsRef.current: sequence of Cell records (index i is JS index i-1)
    mouse,        \* mouseRef.current: [x, y] in fixed point
    time,         \* timeRef.current
    animationRef, \* animationRef.current: 0 is null, otherwise the last request id
    pending,      \* request ids the host still has to call back
    nextHandle,   \* the id the host hands out next
    listeners,    \* event types this effect has a listener registered for
    drawnLines,   \* connection lines stroked by the last frame: pairs <<owner, target>>
    drawnCells,   \* indices of the cells the last frame painted
    obs,          \* per cell, what the last frame observed (history, not program state)
    frames,       \* number of frames rendered since mount (history)
    events,       \* number of pointer / resize events dispatched (history)
    lastOp        \* the operation that produced this state (history)

vars == <<phase, viewport, cells, mouse, time, animationRef, pending, nextHandle,
          listeners, drawnLines, drawnCells, obs, frames, events, lastOp>>

-----------------------------------------------------------------------------
(* Bounds of the model *)

Scale == 100            \* fixed-point units per pixel / lightness point
MaxFrames == 4          \* frames of the short-horizon specification
MaxEvents == 3          \* pointer and resize events of the short-horizon specification
MaxFadeFrames == 131    \* frames of the long-horizon (fade) specification
MaxFadeEvents == 4      \* pointer and resize events of the fade specification
EventWindow == 3        \* in the fade specification events occur only this early ...
LateStart == 127        \* ... or from this frame on (after a full fade window)
MaxBigFrames == 5       \* frames of the 800x600 specification
MaxBigEvents == 2       \* pointer events of the 800x600 specification
MaxBuildEvents == 1     \* resizes of the builder specification

-----------------------------------------------------------------------------
(* Program constants *)

hexRadius == 25
influenceRadius == 80
fadeOutDuration == 2000
baseBrightness == 65
distortionStrength == 15
noiseScale == 3
FrameStep == 16
Sentinel == -9999

hexSpacing == (hexRadius * 18 * Scale) \div 10          \* hexRadius * 1.8
rowHeight == (hexRadius * 173205 * Scale) \div 100000   \* hexRadius * Math.sqrt(3)
TAU == 6283                                             \* Math.PI * 2, milliradians
RandMod == 2 ^ 16 + 1                                   \* modulus of the generator

-----------------------------------------------------------------------------
(* Arithmetic *)

Abs(n) == IF n < 0 THEN -n ELSE n
Max(a, b) == IF a >= b THEN a ELSE b
Min(a, b) == IF a <= b THEN a ELSE b

\* n / d rounded to the nearest integer (d > 0)
Round(n, d) == (2 * n + d) \div (2 * d)

RECURSIVE SqrtIter(_, _)
SqrtIter(n, x) ==
    LET y == (x + n \div x) \div 2
    IN  IF y >= x THEN x ELSE SqrtIter(n, y)

\* floor of the square root
ISqrt(n) == IF n <= 0 THEN 0 ELSE SqrtIter(n, n)

\* Math.sqrt(dx * dx + dy * dy).  Beyond Far on either axis the squares leave the
\* range of 32-bit integers; the larger leg is returned instead, a lower bound of
\* the root that is itself beyond every radius the code compares against (80, 90
\* and 120 pixels), so every comparison comes out as in the code.
Far == 150 * Scale
Hypot(dx, dy) ==
    IF Abs(dx) >= Far \/ Abs(dy) >= Far
    THEN Max(Abs(dx), Abs(dy))
    ELSE ISqrt(dx * dx + dy * dy)

\* Math.sin of an angle in milliradians, times 1000
SinHalf(x) ==
    LET p == (x * (3142 - x)) \div 1000
    IN  (16000 * p) \div (49348 - 4 * p)
Sin(a) ==
    LET r == a % TAU
    IN  IF r < 3142 THEN SinHalf(r) ELSE -SinHalf(r - 3142)

\* clamp(v, a, b), line 24
clamp(v, a, b) == Max(a, Min(b, v))

\* noise(x, y, t) * 1000; x, y, t in fixed point
noise(x, y, t) ==
    ((Sin((x * 10 + t * 2) \div Scale)
      + Sin((y * 15 + t * 3) \div Scale)
      + Sin(((x + y) * 8 + t) \div Scale)) * 33) \div 100

\* Math.random(): the generator's next state; the value returned is state / RandMod
Rand(s) == (s * 75 + 74) % RandMod

\* the draw s, read as a number in [0, 1), compared with pct / 100
RandBelow(s, pct) == s * 100 < pct * RandMod
RandAbove(s, pct) == s * 100 > pct * RandMod
\* the draw s times k (k in fixed point)
RandTimes(s, k) == (s * k) \div RandMod

-----------------------------------------------------------------------------
(* Grid builder, lines 60-147 *)

\* mutant: the grid area taken 90% of the window wide instead of 80%
gridArea_wide(w, h) ==
    LET gw == (w * 9 * Scale) \div 10
        gh == (h * 5 * Scale) \div 10
    IN  [x |-> (w * Scale) \div 10, y |-> (h * Scale) \div 10, w |-> gw, h |-> gh,
         cols |-> gw \div hexSpacing, rows |-> gh \div rowHeight]

\* mutant: a lattice of at least one column and one row
gridArea_atLeastOne(w, h) ==
    LET gw == (w * 8 * Scale) \div 10
        gh == (h * 5 * Scale) \div 10
    IN  [x |-> (w * Scale) \div 10, y |-> (h * Scale) \div 10, w |-> gw, h |-> gh,
         cols |-> Max(1, gw \div hexSpacing), rows |-> Max(1, gh \div rowHeight)]

\* gridArea of a w x h viewport, with the lattice dimensions cols and rows
gridArea(w, h) ==
    LET gw == (w * 8 * Scale) \div 10
        gh == (h * 5 * Scale) \div 10
    IN  [x |-> (w * Scale) \div 10, y |-> (h * Scale) \div 10, w |-> gw, h |-> gh,
         cols |-> gw \div hexSpacing, rows |-> gh \div rowHeight]

\* lattice coordinates of (row, col), lines 74-76
latticeX(g, row, col) ==
    g.x + col * hexSpacing + (IF row % 2 = 0 THEN 0 ELSE hexSpacing \div 2)
latticeY(g, row, col) == g.y + row * rowHeight

\* type and size from the cellType draw, lines 80-95
cellShape(s) ==
    IF RandBelow(s, 60) THEN [type |-> "hex", size |-> hexRadius * Scale]
    ELSE IF RandBelow(s, 80) THEN [type |-> "square", size |-> (hexRadius * Scale * 8) \div 10]
    ELSE IF RandBelow(s, 95) THEN [type |-> "diamond", size |-> (hexRadius * Scale * 7) \div 10]
    ELSE [type |-> "circuit", size |-> (hexRadius * Scale * 5) \div 10]

\* hue from the colorType draw s and the next draw t, lines 98-108
cellHue(s, t) ==
    LET base == IF RandBelow(s, 30) THEN 180
                ELSE IF RandBelow(s, 50) THEN 220
                ELSE IF RandBelow(s, 70) THEN 120
                ELSE 280
    IN  base * Scale + RandTimes(t, 40 * Scale)

\* mutant: a new cell starts at the resting brightness of a lit cell
newCell_lit(x, y, shape, hue, noiseOffset) ==
    [x |-> x, y |-> y, size |-> shape.size, hue |-> hue,
     lightness |-> 0, targetL |-> baseBrightness * Scale,
     distortionX |-> 0, distortionY |-> 0,
     targetDistortionX |-> 0, targetDistortionY |-> 0,
     noiseOffset |-> noiseOffset,
     isActivated |-> FALSE, activationTime |-> 0, lastHoverTime |-> 0,
     type |-> shape.type, connections |-> <<>>]

\* the record pushed at lines 110-127
newCell(x, y, shape, hue, noiseOffset) ==
    [x |-> x, y |-> y, size |-> shape.size, hue |-> hue,
     lightness |-> 0, targetL |-> 0,
     distortionX |-> 0, distortionY |-> 0,
     targetDistortionX |-> 0, targetDistortionY |-> 0,
     noiseOffset |-> noiseOffset,
     isActivated |-> FALSE, activationTime |-> 0, lastHoverTime |-> 0,
     type |-> shape.type, connections |-> <<>>]

\* the body of the placement loops, lines 74-128, at lattice point k = row * cols +
\* col; st is [s: generator state, cells: the cells pushed so far]
placeStep(g, k, st) ==
    LET row == k \div g.cols
        col == k % g.cols
        s1 == Rand(st.s)   \* the gap draw, line 79
        s2 == Rand(s1)     \* cellType
        s3 == Rand(s2)     \* colorType
        s4 == Rand(s3)     \* hue within the band
        s5 == Rand(s4)     \* noiseOffset
    IN  IF RandAbove(s1, 15)
        THEN [s |-> s5,
              cells |-> Append(st.cells,
                            newCell(latticeX(g, row, col), latticeY(g, row, col),
                                    cellShape(s2), cellHue(s3, s4),
                                    RandTimes(s5, (TAU * Scale) \div 1000)))]
        ELSE [s |-> s1, cells |-> st.cells]

\* the placement loops, lines 72-73, over the lattice points lo .. hi in row-major
\* order (the range is split in halves to keep the evaluation shallow)
RECURSIVE PlaceCells(_, _, _, _)
PlaceCells(g, lo, hi, st) ==
    IF lo > hi THEN st
    ELSE IF lo = hi THEN placeStep(g, lo, st)
    ELSE LET mid == (lo + hi) \div 2
             left == PlaceCells(g, lo, mid, st)
         IN  IF Len(left.cells) >= 0 /\ left.s >= 0   \* evaluate the first half first
             THEN PlaceCells(g, mid + 1, hi, left)
             ELSE left

\* mutant: the index pushed is one too high
connectStep_offByOne(cs, i, j, st) ==
    IF Hypot(cs[i].x - cs[j].x, cs[i].y - cs[j].y) < hexSpacing * 2
    THEN LET s1 == Rand(st.s)
         IN  [s |-> s1,
              conns |-> IF RandAbove(s1, 70) THEN Append(st.conns, j) ELSE st.conns]
    ELSE st

\* one pass of the inner connection loop body, lines 136-142, for owner i and
\* other j; st is [s: generator state, conns: entries pushed so far].  The entries
\* pushed are the code's 0-based indices.
connectStep(cs, i, j, st) ==
    IF Hypot(cs[i].x - cs[j].x, cs[i].y - cs[j].y) < hexSpacing * 2
    THEN LET s1 == Rand(st.s)
         IN  [s |-> s1,
              conns |-> IF RandAbove(s1, 70) THEN Append(st.conns, j - 1) ELSE st.conns]
    ELSE st

\* the inner connection loop, line 135, over j = lo .. hi in ascending order (the
\* range is split in halves to keep the evaluation shallow; the order is the loop's)
RECURSIVE ConnectFrom(_, _, _, _, _)
ConnectFrom(cs, i, lo, hi, st) ==
    IF lo > hi THEN st
    ELSE IF lo = hi THEN connectStep(cs, i, lo, st)
    ELSE LET mid == (lo + hi) \div 2
             left == ConnectFrom(cs, i, lo, mid, st)
         IN  IF Len(left.conns) >= 0 /\ left.s >= 0   \* evaluate the first half first
             THEN ConnectFrom(cs, i, mid + 1, hi, left)
             ELSE left

\* the outer connection loop, line 133, over owners i = lo .. hi in ascending
\* order; st is [s: generator state, all: the connections lists of the owners done]
RECURSIVE ConnectAll(_, _, _, _)
ConnectAll(cs, lo, hi, st) ==
    IF lo > hi THEN st
    ELSE IF lo = hi
    THEN LET r == ConnectFrom(cs, lo, lo + 1, Len(cs), [s |-> st.s, conns |-> <<>>])
         IN  [s |-> r.s, all |-> Append(st.all, r.conns)]
    ELSE LET mid == (lo + hi) \div 2
             left == ConnectAll(cs, lo, mid, st)
         IN  IF Len(left.all) >= 0 /\ left.s >= 0     \* evaluate the first half first
             THEN ConnectAll(cs, mid + 1, hi, left)
             ELSE left

\* lines 132-146: the connection pass over the placed cells
connectCells(cs, s) ==
    IF Len(cs) = 0 THEN cs
    ELSE LET linked == ConnectAll(cs, 1, Len(cs), [s |-> s, all |-> <<>>])
         IN  [i \in 1..Len(cs) |-> [cs[i] EXCEPT !.connections = linked.all[i]]]

\* the result of both passes, given the result of the placement pass
finishBuild(placed) == connectCells(placed.cells, placed.s)

\* buildCells(w, h) with the generator seeded by seed
buildCells(w, h, seed) ==
    LET g == gridArea(w, h)
    IN  finishBuild(PlaceCells(g, 0, g.rows * g.cols - 1, [s |-> seed, cells |-> <<>>]))

-----------------------------------------------------------------------------
(* Simulation step, lines 261-319 *)

\* cellDistance(c, mx, my), lines 150-154
cellDistance(c, mx, my) ==
    Hypot((c.x + c.distortionX) - mx, (c.y + c.distortionY) - my)

\* isCurrentlyHovered, line 271
isHovered(d) == d < influenceRadius * Scale

\* mutant: the hover test made with the displacement radius (1.5 times too wide)
markHover_wide(cell, d, t) ==
    IF d * 2 < influenceRadius * Scale * 3
    THEN [cell EXCEPT !.lastHoverTime = t,
                      !.isActivated = TRUE,
                      !.activationTime = IF cell.isActivated THEN @ ELSE t]
    ELSE cell

\* mutant: every hovered frame stamps activationTime
markHover_resetActivation(cell, d, t) ==
    IF isHovered(d)
    THEN [cell EXCEPT !.lastHoverTime = t,
                      !.isActivated = TRUE,
                      !.activationTime = t]
    ELSE cell

\* lines 273-279: hover bookkeeping
markHover(cell, d, t) ==
    IF isHovered(d)
    THEN [cell EXCEPT !.lastHoverTime = t,
                      !.isActivated = TRUE,
                      !.activationTime = IF cell.isActivated THEN @ ELSE t]
    ELSE cell

\* mutant: the hovered target starts from baseBrightness instead of 70
hoverTarget_fromBase(d) ==
    baseBrightness * Scale + Round((influenceRadius * Scale - d) * 30, influenceRadius)

\* mutant: proximity taken as d / influenceRadius
hoverTarget_inverted(d) == 70 * Scale + Round(d * 30, influenceRadius)

\* line 286: 70 + (1 - d / influenceRadius) * 30
hoverTarget(d) == 70 * Scale + Round((influenceRadius * Scale - d) * 30, influenceRadius)

\* mutant: baseBrightness * fadeProgress, without the inversion
fadeTarget_noInvert(since) ==
    Round(baseBrightness * Scale * since, fadeOutDuration)

\* lines 288-290: baseBrightness * (1 - timeSinceLastHover / fadeOutDuration)
fadeTarget(since) ==
    Round(baseBrightness * Scale * (fadeOutDuration - since), fadeOutDuration)

\* mutant: the fade window closed one frame late (<= instead of <)
setTarget_inclusive(cell, d, t) ==
    LET timeSinceLastHover == t - cell.lastHoverTime
    IN  IF cell.isActivated
        THEN IF isHovered(d)
             THEN [cell EXCEPT !.targetL = hoverTarget(d)]
             ELSE IF timeSinceLastHover <= fadeOutDuration
             THEN [cell EXCEPT !.targetL = fadeTarget(timeSinceLastHover)]
             ELSE [cell EXCEPT !.targetL = 0, !.isActivated = FALSE]
        ELSE [cell EXCEPT !.targetL = 0]

\* mutant: isActivated not cleared when the fade window has elapsed
setTarget_keepActive(cell, d, t) ==
    LET timeSinceLastHover == t - cell.lastHoverTime
    IN  IF cell.isActivated
        THEN IF isHovered(d)
             THEN [cell EXCEPT !.targetL = hoverTarget(d)]
             ELSE IF timeSinceLastHover < fadeOutDuration
             THEN [cell EXCEPT !.targetL = fadeTarget(timeSinceLastHover)]
             ELSE [cell EXCEPT !.targetL = 0]
        ELSE [cell EXCEPT !.targetL = 0]

\* lines 281-297: brightness target and deactivation
setTarget(cell, d, t) ==
    LET timeSinceLastHover == t - cell.lastHoverTime
    IN  IF cell.isActivated
        THEN IF isHovered(d)
             THEN [cell EXCEPT !.targetL = hoverTarget(d)]
             ELSE IF timeSinceLastHover < fadeOutDuration
             THEN [cell EXCEPT !.targetL = fadeTarget(timeSinceLastHover)]
             ELSE [cell EXCEPT !.targetL = 0, !.isActivated = FALSE]
        ELSE [cell EXCEPT !.targetL = 0]

\* line 302: Math.sin(d * 0.1 - time * 0.008) * 0.5 + 0.5, times 1000
techRipple(d, t) == (Sin((d * 100) \div Scale - 8 * t) + 1000) \div 2

\* lines 303-306: cos and sin of Math.atan2(ay, ax), times 1000 (atan2(0, 0) is 0)
towardMouse(ax, ay) ==
    LET h == Hypot(ax, ay)
    IN  IF h = 0 THEN [cos |-> 1000, sin |-> 0]
        ELSE [cos |-> Round(ax * 1000, h), sin |-> Round(ay * 1000, h)]

\* lines 300-318: displacement target
setDistortion(cell, d, mx, my, t) ==
    LET dir == towardMouse(mx - cell.x, my - cell.y)
        ripple == techRipple(d, t)
        near == d * 2 < influenceRadius * Scale * 3
        pullX == IF near
                 THEN Round(Round(dir.cos * ripple, 1000) * distortionStrength * Scale, 1000)
                 ELSE 0
        pullY == IF near
                 THEN Round(Round(dir.sin * ripple, 1000) * distortionStrength * Scale, 1000)
                 ELSE 0
        tn == t * Scale + cell.noiseOffset
        organicX == Round(noise(cell.x, cell.y, tn) * noiseScale * Scale, 1000)
        organicY == Round(noise(cell.y, cell.x, tn + 100 * Scale) * noiseScale * Scale, 1000)
    IN  [cell EXCEPT !.targetDistortionX = pullX + organicX,
                     !.targetDistortionY = pullY + organicY]

\* the body of the first loop, lines 270-318
simulateCell(cell, mx, my, t) ==
    LET d == cellDistance(cell, mx, my)
    IN  setDistortion(setTarget(markHover(cell, d, t), d, t), d, mx, my, t)

\* mutant: the lightness easing factor 2 instead of 0.2
easeCell_overshoot(cell) ==
    [cell EXCEPT !.lightness = @ + (cell.targetL - @) * 2,
                 !.distortionX = @ + Round(cell.targetDistortionX - @, 10),
                 !.distortionY = @ + Round(cell.targetDistortionY - @, 10)]

\* mutant: easing with a constant drift
easeCell_drift(cell) ==
    [cell EXCEPT !.lightness = @ + Round((cell.targetL - @) * 2, 10) + 1,
                 !.distortionX = @ + Round(cell.targetDistortionX - @, 10),
                 !.distortionY = @ + Round(cell.targetDistortionY - @, 10)]

\* mutant: lightness jumps to its target
easeCell_snap(cell) ==
    [cell EXCEPT !.lightness = cell.targetL,
                 !.distortionX = @ + Round(cell.targetDistortionX - @, 10),
                 !.distortionY = @ + Round(cell.targetDistortionY - @, 10)]

\* lines 323-325: easing
easeCell(cell) ==
    [cell EXCEPT !.lightness = @ + Round((cell.targetL - @) * 2, 10),
                 !.distortionX = @ + Round(cell.targetDistortionX - @, 10),
                 !.distortionY = @ + Round(cell.targetDistortionY - @, 10)]

\* both loops over the whole cell set, lines 269-325
stepCells(cs, mx, my, t) ==
    [i \in 1..Len(cs) |-> easeCell(simulateCell(cs[i], mx, my, t))]

\* line 327: the cells that are painted
paintedCells(cs) == {i \in 1..Len(cs) : cs[i].lightness * 2 > Scale}

\* mutant: the target's lightness not tested
drawConnections_ownerOnly(cs) ==
    {ln \in UNION {{<<i - 1, cs[i].connections[k]>> : k \in 1..Len(cs[i].connections)} :
                      i \in {j \in 1..Len(cs) : cs[j].lightness > 10 * Scale}} :
        ln[2] + 1 \in 1..Len(cs)}

\* drawConnections, lines 207-227: the lines stroked, as <<owner, target>> in the
\* code's 0-based indices
drawConnections(cs) ==
    {ln \in UNION {{<<i - 1, cs[i].connections[k]>> : k \in 1..Len(cs[i].connections)} :
                      i \in {j \in 1..Len(cs) : cs[j].lightness > 10 * Scale}} :
        /\ ln[2] + 1 \in 1..Len(cs)
        /\ cs[ln[2] + 1].lightness > 10 * Scale}

-----------------------------------------------------------------------------
(* What a frame observed of each cell: history for the properties *)

newObs(cs) ==
    [i \in 1..Len(cs) |-> [d |-> 0, hovered |-> FALSE, everHovered |-> FALSE, missed |-> 0]]

\* d and hovered are those the frame computed at lines 270-271, before it moved
\* the cell; missed counts the frames in a row that did not hover the cell
stepObs(cs, ob, mx, my) ==
    [i \in 1..Len(cs) |->
        LET d == cellDistance(cs[i], mx, my)
        IN  [d |-> d, hovered |-> isHovered(d),
             everHovered |-> ob[i].everHovered \/ isHovered(d),
             missed |-> IF isHovered(d) THEN 0 ELSE ob[i].missed + 1]]

-----------------------------------------------------------------------------
(* Operations *)

\* the refs after the component function ran, before the effect: lines 36-40
Init ==
    /\ phase = "created"
    /\ viewport = <<0, 0>>
    /\ cells = <<>>
    /\ mouse = [x |-> Sentinel * Scale, y |-> Sentinel * Scale]
    /\ time = 0
    /\ animationRef = 0
    /\ pending = {}
    /\ nextHandle = 1
    /\ listeners = {}
    /\ drawnLines = {}
    /\ drawnCells = {}
    /\ obs = <<>>
    /\ frames = 0
    /\ events = 0
    /\ lastOp = "init"

\* resize(), lines 47-57, on a vp[1] x vp[2] window, the generator seeded by seed
resize(vp, seed) ==
    /\ viewport' = vp
    /\ cells' = buildCells(vp[1], vp[2], seed)
    /\ obs' = newObs(cells')

\* mutant: the handle of the request is not stored
requestFrame_noStore(stillPending) ==
    /\ pending' = stillPending \cup {nextHandle}
    /\ animationRef' = animationRef
    /\ nextHandle' = nextHandle + 1

\* requestAnimationFrame(render) and the store to animationRef, lines 376 and 394
requestFrame(stillPending) ==
    /\ pending' = stillPending \cup {nextHandle}
    /\ animationRef' = nextHandle
    /\ nextHandle' = nextHandle + 1

\* the effect, lines 389-394
Mount(vp, seed) ==
    /\ phase = "created"
    /\ phase' = "mounted"
    /\ resize(vp, seed)
    /\ listeners' = {"resize", "mousemove", "mouseleave"}
    /\ requestFrame(pending)
    /\ lastOp' = "mount"
    /\ UNCHANGED <<mouse, time, drawnLines, drawnCells, frames, events>>

\* mutant: the connections drawn before the easing pass
render_drawEarly(h) ==
    /\ h \in pending
    /\ time' = time + FrameStep
    /\ cells' = stepCells(cells, mouse.x, mouse.y, time')
    /\ obs' = stepObs(cells, obs, mouse.x, mouse.y)
    /\ drawnCells' = paintedCells(cells')
    /\ drawnLines' = drawConnections(cells)
    /\ requestFrame(pending \ {h})
    /\ frames' = frames + 1
    /\ lastOp' = "frame"
    /\ UNCHANGED <<phase, viewport, mouse, listeners, events>>

\* mutant: the clock advanced twice per frame
render_doubleStep(h) ==
    /\ h \in pending
    /\ time' = time + 2 * FrameStep
    /\ cells' = stepCells(cells, mouse.x, mouse.y, time')
    /\ obs' = stepObs(cells, obs, mouse.x, mouse.y)
    /\ drawnCells' = paintedCells(cells')
    /\ drawnLines' = drawConnections(cells')
    /\ requestFrame(pending \ {h})
    /\ frames' = frames + 1
    /\ lastOp' = "frame"
    /\ UNCHANGED <<phase, viewport, mouse, listeners, events>>

\* the host calls back the pending request h: render(), lines 230-377
render(h) ==
    /\ h \in pending
    /\ time' = time + FrameStep
    /\ cells' = stepCells(cells, mouse.x, mouse.y, time')
    /\ obs' = stepObs(cells, obs, mouse.x, mouse.y)
    /\ drawnCells' = paintedCells(cells')
    /\ drawnLines' = drawConnections(cells')
    /\ requestFrame(pending \ {h})
    /\ frames' = frames + 1
    /\ lastOp' = "frame"
    /\ UNCHANGED <<phase, viewport, mouse, listeners, events>>

\* mutant: only the x coordinate of the event stored
onMove_xOnly(x, y) ==
    /\ "mousemove" \in listeners
    /\ mouse' = [mouse EXCEPT !.x = x]
    /\ events' = events + 1
    /\ lastOp' = "move"
    /\ UNCHANGED <<phase, viewport, cells, time, animationRef, pending, nextHandle,
                   listeners, drawnLines, drawnCells, obs, frames>>

\* onMove, lines 380-383, for an event at (x, y)
onMove(x, y) ==
    /\ "mousemove" \in listeners
    /\ mouse' = [x |-> x, y |-> y]
    /\ events' = events + 1
    /\ lastOp' = "move"
    /\ UNCHANGED <<phase, viewport, cells, time, animationRef, pending, nextHandle,
                   listeners, drawnLines, drawnCells, obs, frames>>

\* onLeave, lines 384-387
onLeave ==
    /\ "mouseleave" \in listeners
    /\ mouse' = [x |-> Sentinel * Scale, y |-> Sentinel * Scale]
    /\ events' = events + 1
    /\ lastOp' = "leave"
    /\ UNCHANGED <<phase, viewport, cells, time, animationRef, pending, nextHandle,
                   listeners, drawnLines, drawnCells, obs, frames>>

\* the resize listener, lines 47-57 and 391
onResize(vp, seed) ==
    /\ "resize" \in listeners
    /\ resize(vp, seed)
    /\ events' = events + 1
    /\ lastOp' = "resize"
    /\ UNCHANGED <<phase, mouse, time, animationRef, pending, nextHandle, listeners,
                   drawnLines, drawnCells, frames>>

\* mutant: the cleanup without cancelAnimationFrame
Unmount_noCancel ==
    /\ phase = "mounted"
    /\ phase' = "unmounted"
    /\ listeners' = {}
    /\ lastOp' = "unmount"
    /\ UNCHANGED <<viewport, cells, mouse, time, animationRef, pending, nextHandle,
                   drawnLines, drawnCells, obs, frames, events>>

\* the effect's cleanup, lines 396-401
Unmount ==
    /\ phase = "mounted"
    /\ phase' = "unmounted"
    /\ listeners' = {}
    /\ pending' = IF animationRef # 0 THEN pending \ {animationRef} ELSE pending
    /\ lastOp' = "unmount"
    /\ UNCHANGED <<viewport, cells, mouse, time, animationRef, nextHandle, drawnLines,
                   drawnCells, obs, frames, events>>

-----------------------------------------------------------------------------
(* Inputs *)

\* window sizes and generator seeds of the short-horizon specification
Viewports == {<<0, 0>>, <<56, 200>>, <<200, 200>>}
Seeds == {1000, 4}

\* pointer positions: at the lattice coordinate of one of the first cells, or
\* exactly influenceRadius to its right
PointerOffsets == {0, influenceRadius * Scale}
PointerTargets(cs, n) ==
    {<<cs[i].x + o, cs[i].y>> : i \in 1..Min(Len(cs), n), o \in PointerOffsets}

-----------------------------------------------------------------------------
(* Specifications *)

\* short horizon: every operation, a few frames
Next ==
    \/ \E vp \in Viewports, seed \in Seeds : Mount(vp, seed)
    \/ frames < MaxFrames /\ \E h \in pending : render(h)
    \/ events < MaxEvents /\ \E p \in PointerTargets(cells, 2) : onMove(p[1], p[2])
    \/ events < MaxEvents /\ onLeave
    \/ events < MaxEvents /\ \E vp \in Viewports, seed \in Seeds : onResize(vp, seed)
    \/ Unmount

Spec == Init /\ [][Next]_vars

\* long horizon: a whole fade window.  Pointer and resize events occur during the
\* first EventWindow frames or from frame LateStart on.
FadeViewport == <<200, 200>>
FadeSeeds == {1000}
EventsOpen == events < MaxFadeEvents /\ (frames < EventWindow \/ frames >= LateStart)

NextFade ==
    \/ \E seed \in FadeSeeds : Mount(FadeViewport, seed)
    \/ frames < MaxFadeFrames /\ \E h \in pending : render(h)
    \/ EventsOpen /\ \E p \in PointerTargets(cells, 1) : onMove(p[1], p[2])
    \/ EventsOpen /\ onLeave
    \/ EventsOpen /\ \E seed \in FadeSeeds : onResize(FadeViewport, seed)
    \/ Unmount

SpecFade == Init /\ [][NextFade]_vars

\* the 800 x 600 window of the spec's scenario
BigViewport == <<800, 600>>
BigSeeds == {1000, 4}

NextBig ==
    \/ \E seed \in BigSeeds : Mount(BigViewport, seed)
    \/ frames < MaxBigFrames /\ \E h \in pending : render(h)
    \/ events < MaxBigEvents /\ \E p \in PointerTargets(cells, 2) : onMove(p[1], p[2])
    \/ events < MaxBigEvents /\ onLeave

SpecBig == Init /\ [][NextBig]_vars

\* the grid builder over many window sizes: mount, resize, one frame
BuildWidths == {0, 1, 56, 57, 112, 113, 169, 225, 226, 300, 450, 800}
BuildHeights == {0, 1, 86, 87, 173, 174, 260, 347, 600}
BuildViewports == BuildWidths \X BuildHeights
BuildSeeds == {1000, 4}

NextBuild ==
    \/ \E vp \in BuildViewports, seed \in BuildSeeds : Mount(vp, seed)
    \/ frames < 1 /\ \E h \in pending : render(h)
    \/ events < MaxBuildEvents
       /\ \E vp \in Viewports \cup {<<450, 347>>}, seed \in BuildSeeds : onResize(vp, seed)

SpecBuild == Init /\ [][NextBuild]_vars

-----------------------------------------------------------------------------
(* Properties *)

Cells == 1..Len(cells)
AfterFrame == lastOp = "frame"
\* the pointer position the last frame read (frames do not move the pointer)
AtSentinel == mouse.x = Sentinel * Scale /\ mouse.y = Sentinel * Scale
PointerAt(i) == mouse.x = cells[i].x /\ mouse.y = cells[i].y

\* C1: a cell whose distance to the pointer was >= 80 at every frame since it was
\* built is not activated and has lightness exactly 0 after every frame.
C1_NeverHoveredStaysDark ==
    AfterFrame =>
        \A i \in Cells :
            ~obs[i].everHovered => (~cells[i].isActivated /\ cells[i].lightness = 0)

\* a frame has run with the pointer inside the grid, lighting one cell while
\* another has never been within the radius
C1_Witness ==
    /\ AfterFrame
    /\ ~AtSentinel
    /\ \E i, j \in Cells :
          /\ obs[i].everHovered /\ cells[i].lightness > 0
          /\ ~obs[j].everHovered /\ obs[j].d >= influenceRadius * Scale

\* C2: after every frame, isActivated holds exactly for the cells that were hovered
\* at some frame since they were built and whose last hover is less than 2000 ago.
C2_ActivatedIffRecentlyHovered ==
    AfterFrame =>
        \A i \in Cells :
            cells[i].isActivated <=>
                (obs[i].everHovered /\ time - cells[i].lastHoverTime < fadeOutDuration)

\* a cell that was hovered, then left alone for the whole window, is not activated
C2_Witness ==
    /\ AfterFrame
    /\ \E i \in Cells :
          /\ obs[i].everHovered
          /\ time - cells[i].lastHoverTime >= fadeOutDuration
          /\ ~cells[i].isActivated
    /\ \E j \in Cells : cells[j].isActivated

\* C3: an activated cell that is no longer hovered stays activated for 124 frames
\* and is deactivated, with targetL 0, by the 125th frame in a row that does not
\* hover it, the first at which time - lastHoverTime >= 2000 ...
C3_DeactivatedAtFrame125 ==
    AfterFrame =>
        \A i \in Cells :
            obs[i].everHovered =>
                /\ obs[i].missed * FrameStep = time - cells[i].lastHoverTime
                /\ (obs[i].missed * FrameStep >= fadeOutDuration) = (obs[i].missed >= 125)
                /\ obs[i].missed < 125 => cells[i].isActivated
                /\ obs[i].missed >= 125 =>
                      (~cells[i].isActivated /\ cells[i].targetL = 0)

\* ... and a frame that does not hover a deactivated cell leaves it deactivated
\* with targetL 0.
C3_StaysOffStep ==
    (lastOp' = "frame") =>
        \A i \in Cells :
            (~cells[i].isActivated /\ ~obs'[i].hovered) =>
                (~cells'[i].isActivated /\ cells'[i].targetL = 0)

C3_FadeEnds == [](C3_DeactivatedAtFrame125) /\ [][C3_StaysOffStep]_vars

\* the 125th frame after the last hover of a cell has just run
C3_Witness ==
    /\ AfterFrame
    /\ \E i \in Cells :
          /\ obs[i].everHovered
          /\ obs[i].missed = 125
          /\ ~cells[i].isActivated
          /\ cells[i].targetL = 0
          /\ cells[i].lightness > 0

\* C4: in every frame that hovers a cell, the cell's targetL is within [70, 100].
C4_HoveredTargetInRange ==
    AfterFrame =>
        \A i \in Cells :
            obs[i].hovered =>
                (70 * Scale <= cells[i].targetL /\ cells[i].targetL <= 100 * Scale)

\* a cell hovered off-centre for a second frame in a row
C4_Witness ==
    /\ AfterFrame
    /\ \E i \in Cells :
          /\ obs[i].hovered
          /\ obs[i].d > 0
          /\ cells[i].targetL < 100 * Scale
          /\ cells[i].activationTime < time

\* C5 as stated: whatever the displacement, a frame that finds the pointer at a
\* cell's lattice coordinate sets that cell's targetL to 100.
C5_Original ==
    AfterFrame =>
        \A i \in Cells : PointerAt(i) => cells[i].targetL = 100 * Scale

\* C5 as amended: a frame that finds the pointer at distance 0 from a cell's
\* displaced position sets that cell's targetL to 100; at a cell's lattice
\* coordinate the cell is hovered and its targetL is 70 + (1 - d / 80) * 30 for
\* the length d of its displacement.
C5_ZeroDistanceIsFull ==
    AfterFrame =>
        \A i \in Cells :
            /\ obs[i].d = 0 => cells[i].targetL = 100 * Scale
            /\ PointerAt(i) =>
                  /\ obs[i].hovered
                  /\ cells[i].targetL = hoverTarget(obs[i].d)

\* the first frame after a build, with the pointer on a cell's lattice coordinate
C5_Witness ==
    /\ AfterFrame
    /\ \E i \in Cells :
          /\ PointerAt(i)
          /\ obs[i].d = 0
          /\ cells[i].targetL = 100 * Scale

\* C6: every entry of every connections list is an index of the current cell set,
\* not lower than the owner's own index ...
C6_ConnectionsValid ==
    \A i \in Cells :
        \A k \in 1..Len(cells[i].connections) :
            /\ cells[i].connections[k] \in 0..(Len(cells) - 1)
            /\ cells[i].connections[k] >= i - 1

Connections(cs) == [i \in 1..Len(cs) |-> cs[i].connections]

\* ... a frame leaves every connections list as it is, and only a build (mount or
\* resize) replaces them.
C6_ConnectionsStep ==
    /\ (lastOp' = "frame") => Connections(cells') = Connections(cells)
    /\ Connections(cells') # Connections(cells) => lastOp' \in {"mount", "resize"}

C6_ConnectionsFixed == [](C6_ConnectionsValid) /\ [][C6_ConnectionsStep]_vars

\* a frame has run on a cell set rebuilt by a resize, some cell owning connections
C6_Witness ==
    /\ AfterFrame
    /\ events > 0
    /\ \E i \in Cells : Len(cells[i].connections) > 1

\* C7: every cell the builder produced for a w x h window lies in the working
\* rectangle: 0.1 w <= x <= 0.9 w and 0.1 h <= y <= 0.6 h (the four bounds in the
\* arithmetic the builder computes its own in).
C7_CellsInsideGridArea ==
    \A i \in Cells :
        /\ (viewport[1] * Scale) \div 10 <= cells[i].x
        /\ cells[i].x <= (9 * viewport[1] * Scale) \div 10
        /\ (viewport[2] * Scale) \div 10 <= cells[i].y
        /\ cells[i].y <= (6 * viewport[2] * Scale) \div 10

\* the builder kept the last lattice point of an odd (shifted) row
C7_Witness ==
    LET g == gridArea(viewport[1], viewport[2])
    IN  /\ g.rows > 1
        /\ \E i \in Cells :
              /\ cells[i].x = latticeX(g, 1, g.cols - 1)
              /\ cells[i].y = latticeY(g, 1, g.cols - 1)
              /\ cells[i].x > g.x + (g.cols - 1) * hexSpacing

\* C8: after teardown no frame request is pending and no listener is registered ...
C8_TornDown ==
    phase = "unmounted" => (pending = {} /\ listeners = {})

\* ... so that no frame and no handler changes the state any more.
C8_NothingRuns == [](C8_TornDown) /\ [][phase = "unmounted" => UNCHANGED vars]_vars

\* torn down between two frames, the request of the last frame cancelled
C8_Witness ==
    /\ phase = "unmounted"
    /\ frames > 0
    /\ animationRef = nextHandle - 1
    /\ pending = {}

\* C9 as stated, for the cells lit before the pointer left read as leniently as it
\* can be: in an 800 x 600 window, after a frame that found the pointer at the
\* sentinel, the cells never hovered have lightness 0 and no connection line was
\* drawn.
C9_Original ==
    (viewport = BigViewport /\ AfterFrame /\ AtSentinel) =>
        /\ \A i \in Cells : ~obs[i].everHovered => cells[i].lightness = 0
        /\ drawnLines = {}

\* C9 as amended: in an 800 x 600 window, after a frame that found the pointer at
\* the sentinel, every cell never hovered has lightness exactly 0, and a connection
\* line is drawn only between two cells that were lit before the pointer left and
\* still both have lightness > 10; none is drawn if no cell was ever hovered.
C9_SentinelKeepsDark ==
    (viewport = BigViewport /\ AfterFrame /\ AtSentinel) =>
        /\ \A i \in Cells : ~obs[i].everHovered => cells[i].lightness = 0
        /\ \A ln \in drawnLines :
              /\ obs[ln[1] + 1].everHovered /\ cells[ln[1] + 1].lightness > 10 * Scale
              /\ obs[ln[2] + 1].everHovered /\ cells[ln[2] + 1].lightness > 10 * Scale
        /\ (\A i \in Cells : ~obs[i].everHovered) => drawnLines = {}

\* the pointer has left after lighting some cells: a frame at the sentinel, the
\* other cells dark
C9_Witness ==
    /\ viewport = BigViewport /\ AfterFrame /\ AtSentinel
    /\ frames > 1
    /\ \E i \in Cells : obs[i].everHovered /\ ~obs[i].hovered /\ cells[i].lightness > 0
    /\ \E j \in Cells : ~obs[j].everHovered /\ cells[j].lightness = 0

\* C10: every cell's lightness and targetL are within [0, 100] in every state.
C10_LightnessInRange ==
    \A i \in Cells :
        /\ 0 <= cells[i].lightness /\ cells[i].lightness <= 100 * Scale
        /\ 0 <= cells[i].targetL /\ cells[i].targetL <= 100 * Scale

\* a cell at the top of the range (targetL 100) beside one below it
C10_Witness ==
    /\ AfterFrame
    /\ \E i \in Cells : cells[i].targetL = 100 * Scale /\ cells[i].lightness > 0
    /\ \E j \in Cells : cells[j].targetL < 100 * Scale /\ cells[j].targetL > 0

\* C11: the pointer position is the sentinel pair until the first pointer event
\* and after every leave ...
C11_PointerWhole ==
    /\ (events = 0) => AtSentinel
    /\ (lastOp = "leave") => AtSentinel
    /\ (lastOp = "move") =>
          \E i \in Cells, o \in PointerOffsets :
              mouse.x = cells[i].x + o /\ mouse.y = cells[i].y

\* ... written by the last pointer event alone: a move stores both coordinates of
\* one event, a leave stores the sentinel, and no other operation touches it, so a
\* frame reads the pair of the most recent pointer event.
C11_PointerStep ==
    /\ (lastOp' = "move") =>
          \E p \in PointerTargets(cells, Len(cells)) : mouse' = [x |-> p[1], y |-> p[2]]
    /\ (lastOp' = "leave") =>
          mouse' = [x |-> Sentinel * Scale, y |-> Sentinel * Scale]
    /\ (lastOp' \notin {"move", "leave"}) => mouse' = mouse

C11_LastWriteWins == [](C11_PointerWhole) /\ [][C11_PointerStep]_vars

\* a frame has read the pair of a second move, which replaced that of a first
C11_Witness ==
    /\ AfterFrame
    /\ events > 1
    /\ ~AtSentinel
    /\ \E i \in Cells : obs[i].hovered

\* C12: the clock is 16 times the number of frames rendered since mount ...
C12_ClockIsFrames == time = FrameStep * frames

\* ... a frame advances it by exactly 16 and nothing else changes it.
C12_ClockStep ==
    /\ (lastOp' = "frame") => (time' = time + FrameStep /\ time' > time)
    /\ (lastOp' # "frame") => time' = time

C12_ClockTicks == [](C12_ClockIsFrames) /\ [][C12_ClockStep]_vars

\* frames on both sides of a resize and of a pointer event
C12_Witness ==
    /\ AfterFrame
    /\ frames > 2
    /\ events > 1
    /\ time = FrameStep * frames

FreshCell(c) ==
    /\ c.lightness = 0 /\ c.targetL = 0
    /\ c.distortionX = 0 /\ c.distortionY = 0
    /\ c.targetDistortionX = 0 /\ c.targetDistortionY = 0
    /\ ~c.isActivated /\ c.activationTime = 0 /\ c.lastHoverTime = 0

Lattice(cs) == [i \in 1..Len(cs) |-> <<cs[i].x, cs[i].y>>]

\* C13: right after a resize every cell is fresh (lightness, targetL, displacement
\* and its target 0, not activated, both timestamps 0) ...
C13_FreshAfterResize ==
    lastOp \in {"mount", "resize"} => \A i \in Cells : FreshCell(cells[i])

\* ... and no other operation adds, removes or moves a cell of the set.
C13_SetStep ==
    (lastOp' \notin {"mount", "resize"}) => Lattice(cells') = Lattice(cells)

C13_ResizeRebuilds == [](C13_FreshAfterResize) /\ [][C13_SetStep]_vars

\* a resize after frames that lit cells: the pointer is still inside the grid and
\* the clock has run
C13_Witness ==
    /\ lastOp = "resize"
    /\ frames > 1
    /\ ~AtSentinel
    /\ drawnCells # {}
    /\ Len(cells) > 0

\* a viewport whose grid area is narrower than one column or lower than one row
Degenerate(vp) ==
    \/ vp[1] = 0 \/ vp[2] = 0
    \/ vp[1] * 8 * Scale < 10 * hexSpacing
    \/ vp[2] * 5 * Scale < 10 * rowHeight

\* C14: while the viewport is degenerate the cell set is empty, and every frame
\* rendered meanwhile draws no cell and no connection line.
C14_DegenerateIsEmpty ==
    Degenerate(viewport) =>
        /\ cells = <<>>
        /\ AfterFrame => (drawnCells = {} /\ drawnLines = {})

\* a second frame in a row on a window too narrow for one column, after a resize
C14_Witness ==
    /\ AfterFrame
    /\ Degenerate(viewport)
    /\ viewport[1] > 0 /\ viewport[2] > 0
    /\ frames > 1
    /\ events > 0

\* C15: a frame that finds a cell's new targetL equal to its lightness leaves the
\* lightness unchanged.
C15_EaseStep ==
    (lastOp' = "frame") =>
        \A i \in Cells :
            cells'[i].targetL = cells[i].lightness =>
                cells'[i].lightness = cells[i].lightness

C15_EasingIdempotent == [][C15_EaseStep]_vars

\* a frame has found the fading targetL of a lit cell equal to its lightness and
\* left the lightness where it was
C15_Witness ==
    /\ AfterFrame
    /\ \E i \in Cells :
          /\ cells[i].lightness > 0
          /\ cells[i].targetL = cells[i].lightness
          /\ cells[i].isActivated

\* C16: a frame stamps activationTime with its time exactly on the cells it hovers
\* that were not activated, stamps lastHoverTime with its time exactly on the cells
\* it hovers, and leaves both unchanged otherwise.
C16_StampStep ==
    (lastOp' = "frame") =>
        \A i \in Cells :
            LET hovered == isHovered(cellDistance(cells[i], mouse.x, mouse.y))
            IN  /\ cells'[i].activationTime =
                      IF hovered /\ ~cells[i].isActivated
                      THEN time' ELSE cells[i].activationTime
                /\ cells'[i].lastHoverTime =
                      IF hovered THEN time' ELSE cells[i].lastHoverTime

C16_Timestamps == [][C16_StampStep]_vars

\* the fourth frame hovers again a cell that the first frame activated and a
\* frame in between did not hover (its lightness is below 70 * (1 - 0.8^4), the
\* least that four hovered frames in a row leave), beside a cell that is fading
C16_Witness ==
    /\ AfterFrame
    /\ frames = 4
    /\ \E i, j \in Cells :
          /\ obs[i].hovered
          /\ cells[i].activationTime = FrameStep
          /\ cells[i].lastHoverTime = time
          /\ cells[i].lightness < 41 * Scale
          /\ ~obs[j].hovered
          /\ cells[j].isActivated
          /\ 0 < cells[j].lastHoverTime /\ cells[j].lastHoverTime < time

\* C17: after a frame that does not hover an activated cell within the fade
\* window, the cell is still activated and its targetL is 65 * (1 - t / 2000), to
\* the nearest unit, for t = time - lastHoverTime, which lies inside (0, 65) ...
C17_FadeTarget ==
    AfterFrame =>
        \A i \in Cells :
            (obs[i].everHovered /\ ~obs[i].hovered
                /\ time - cells[i].lastHoverTime < fadeOutDuration) =>
                /\ cells[i].isActivated
                /\ 2 * Abs(cells[i].targetL * fadeOutDuration
                           - baseBrightness * Scale
                               * (fadeOutDuration - (time - cells[i].lastHoverTime)))
                      <= fadeOutDuration
                /\ 0 < cells[i].targetL
                /\ cells[i].targetL < baseBrightness * Scale

\* ... and from one such frame to the next targetL strictly decreases.
C17_FadeStep ==
    (lastOp' = "frame") =>
        \A i \in Cells :
            (cells[i].isActivated /\ obs[i].missed >= 1 /\ ~obs'[i].hovered
                /\ time' - cells[i].lastHoverTime < fadeOutDuration) =>
                (cells'[i].isActivated /\ cells'[i].targetL < cells[i].targetL)

C17_LinearFade == [](C17_FadeTarget) /\ [][C17_FadeStep]_vars

\* the last frame of a fade window: 124 frames in a row without hover
C17_Witness ==
    /\ AfterFrame
    /\ \E i \in Cells :
          /\ cells[i].isActivated
          /\ obs[i].missed = 124
          /\ cells[i].targetL > 0
          /\ cells[i].targetL < Scale

\* C18: a frame moves lightness by 20% of its gap to the new targetL, to the
\* nearest unit: the new lightness is between the old one and targetL, reaches
\* targetL only if it was there, and is at 0.8 times the old distance.
C18_EaseStep ==
    (lastOp' = "frame") =>
        \A i \in Cells :
            LET l == cells[i].lightness
                t == cells'[i].targetL
                n == cells'[i].lightness
            IN  /\ Min(l, t) <= n /\ n <= Max(l, t)
                /\ (l # t) => (n # t)
                /\ 2 * Abs(10 * (n - l) - 2 * (t - l)) <= 10
                /\ Abs(t - n) <= Abs(t - l)
                /\ 2 * Abs(10 * Abs(t - n) - 8 * Abs(t - l)) <= 10

C18_EasingStep == [][C18_EaseStep]_vars

\* a cell held under the pointer for a third frame, closing on a constant target
\* from below, beside a cell closing on its target from above
C18_Witness ==
    /\ AfterFrame
    /\ frames > 2
    /\ \E i \in Cells :
          /\ obs[i].hovered
          /\ cells[i].activationTime + 2 * FrameStep <= time
          /\ 0 < cells[i].lightness /\ cells[i].lightness < cells[i].targetL
    /\ \E j \in Cells : cells[j].lightness > cells[j].targetL

\* C19: after every frame the lines drawn are exactly the pairs of a cell and an
\* entry of its connections whose lightness, as left by that frame's easing pass,
\* is above 10 at both ends.
C19_LinesIffBothLit ==
    AfterFrame =>
        /\ \A i \in Cells :
              \A k \in 1..Len(cells[i].connections) :
                  LET j == cells[i].connections[k]
                  IN  (<<i - 1, j>> \in drawnLines) <=>
                          /\ cells[i].lightness > 10 * Scale
                          /\ cells[j + 1].lightness > 10 * Scale
        /\ \A line \in drawnLines :
              /\ line[1] + 1 \in Cells
              /\ \E k \in 1..Len(cells[line[1] + 1].connections) :
                    cells[line[1] + 1].connections[k] = line[2]

\* a frame draws one connection and leaves out another that has only one end lit
C19_Witness ==
    /\ AfterFrame
    /\ drawnLines # {}
    /\ \E i \in Cells :
          \E k \in 1..Len(cells[i].connections) :
              LET j == cells[i].connections[k]
              IN  /\ <<i - 1, j>> \notin drawnLines
                  /\ (cells[i].lightness > 10 * Scale)
                        # (cells[j + 1].lightness > 10 * Scale)

\* C20: no request is pending before mount; while mounted exactly one request is
\* pending and animationRef holds its handle ...
C20_OnePending ==
    /\ (phase = "created") => pending = {}
    /\ (phase = "mounted") =>
          (Cardinality(pending) = 1 /\ pending = {animationRef})

\* ... a frame consumes the pending request and issues one new request, and
\* pointer moves, leaves and resizes neither issue nor cancel a request.
C20_RequestStep ==
    /\ (lastOp' = "frame") =>
          (pending \cap pending' = {} /\ pending' = {nextHandle}
              /\ animationRef' = nextHandle)
    /\ (lastOp' \in {"move", "leave", "resize"}) =>
          (pending' = pending /\ animationRef' = animationRef
              /\ nextHandle' = nextHandle)

C20_SingleLoop == [](C20_OnePending) /\ [][C20_RequestStep]_vars

\* frames have run on both sides of a resize and of a pointer event
C20_Witness ==
    /\ phase = "mounted"
    /\ frames > 1
    /\ events > 1
    /\ lastOp = "resize"
    /\ pending = {animationRef}
    /\ animationRef = frames + 1

====
